---- MODULE Spec2Model ----
(***************************************************************************)
(* Model of torch_ucc's out-of-band allgather over a c10d store            *)
(* (oob_allgather, oob_allgather_test, oob_allgather_free) and of the      *)
(* CommUCX / CommUCC communicator lifecycle and their requests,            *)
(* src/torch_ucc_comm.cpp, and of the CommTraceLogger records,             *)
(* src/torch_ucc_tracing.cpp.                                              *)
(*                                                                         *)
(* Every store call is one atomic step of the calling peer; the peers are  *)
(* separate processes, so their store calls interleave freely.             *)
(***************************************************************************)
EXTENDS Integers, Sequences, FiniteSets, TLC

\* ---------------------------------------------------------------- bounds
MaxSize == 3
MaxBuf == 6
MaxCalls == 6
\* free_request calls made on one request
MaxFree == 2
\* recordComms calls made on one CommTraceLogger
MaxRecords == 2

\* ------------------------------------------------------------- constants
\* the values of one uint8_t
ByteMod == 256

VARIABLES
    size,      \* info->size, the agreed peer count
    msglen,    \* the msglen every peer passes to oob_allgather
    store,     \* info->store: the present keys and their values
    round,     \* per peer: how many oob_allgather calls it has made
    pc,        \* per peer: where it stands between and inside the calls
    idx,       \* per peer: the loop variable r of the running loop
    ret,       \* per peer: the status its last call returned
    rbuf,      \* per peer: the bytes info->rbuf points at
    keyRound,  \* history: the round of the call that created each present key
    done_by,   \* history: the <<rank, round>> increments held by "ag_done"
    ndel,      \* history: deleteKey calls per round and publish key
    misuse,    \* history: the peer's running call was made out of order
    ucx,       \* the CommUCX object: its fields and the library calls it made
    ucc,       \* the CommUCC object: its fields and the library calls it made
    ucx_req,   \* the ucc_coll_req_h a CommUCX caller holds, and the calls on it
    ucc_req,   \* the ucc_coll_req_h a CommUCC caller holds, and the calls on it
    comms_trace_,       \* CommTraceLogger: the records pushed so far
    seqnum,             \* CommTraceLogger: the next sequence number
    curRoot_,           \* CommTraceLogger: the pending root, -1 for none
    curInSplitSizes_,   \* CommTraceLogger: the pending input split sizes
    curOutSplitSizes_,  \* CommTraceLogger: the pending output split sizes
    recorded,  \* history: the commName of every recordComms call, in call order
    gaveRoot,  \* history: the last recordOptionalInfo(root) since the previous
               \* recordComms passed a root (a rank, not -1)
    gaveSplit  \* history: the last recordOptionalInfo(out, in) since the
               \* previous recordComms passed a non-empty vector

oobvars == <<size, msglen, store, round, pc, idx, ret, rbuf, keyRound,
             done_by, ndel, misuse>>

commvars == <<ucx, ucc>>

reqvars == <<ucx_req, ucc_req>>

tracevars == <<comms_trace_, seqnum, curRoot_, curInSplitSizes_, curOutSplitSizes_,
               recorded, gaveRoot, gaveSplit>>

restvars == <<commvars, reqvars, tracevars>>

vars == <<oobvars, commvars, reqvars, tracevars>>

Ranks == 0 .. (size - 1)
\* a peer's rounds: no peer can make more calls than all peers together
Rounds == 1 .. MaxCalls

UCC_OK == "UCC_OK"
UCC_INPROGRESS == "UCC_INPROGRESS"
UCC_ERR_NO_MESSAGE == "UCC_ERR_NO_MESSAGE"
NoStatus == "none"

\* the oob_allgather calls the first n peers have made so far
RECURSIVE Calls(_)
Calls(n) == IF n = 0 THEN 0 ELSE round[n - 1] + Calls(n - 1)

\* ------------------------------------------------------------------ keys
\* info->getKey("teamr" + std::to_string(r)) and its two siblings
teamr(r) == <<"teamr", r>>
ag_done == <<"ag_done">>
ag_free(r) == <<"ag_free", r>>

\* ----------------------------------------------------------------- store
StoreCheck(st, k) == k \in DOMAIN st
StoreGet(st, k) == st[k]
StoreSet(st, k, v) == [x \in (DOMAIN st) \cup {k} |-> IF x = k THEN v ELSE st[x]]
StoreAddValue(st, k, d) == IF k \in DOMAIN st THEN st[k] + d ELSE d
StoreAdd(st, k, d) == StoreSet(st, k, StoreAddValue(st, k, d))
StoreDelete(st, k) == [x \in (DOMAIN st) \ {k} |-> st[x]]

\* the history of which round created a key follows the store
TagSet(kr, k, n) == [x \in (DOMAIN kr) \cup {k} |-> IF x = k THEN n ELSE kr[x]]
TagAdd(kr, k, n) == IF k \in DOMAIN kr THEN kr ELSE TagSet(kr, k, n)
TagDelete(kr, k) == [x \in (DOMAIN kr) \ {k} |-> kr[x]]

\* ------------------------------------------------------------- buffers
\* the bytes peer r passes as sbuf in its n-th round: all different
SbufByte(r, n, j) == (1 + (n - 1) * MaxBuf + r * msglen + (j - 1)) % ByteMod
Sbuf(r, n) == [j \in 1 .. msglen |-> SbufByte(r, n, j)]
\* the caller's receive buffer before any memcpy into it
FreshBuf == [j \in 1 .. (size * msglen) |-> 0]

\* a memcpy that counts the offset from the far end of the buffer
MemcpyBad(buf, r, data) ==
    [j \in 1 .. Len(buf) |->
        IF j > msglen * (size - 1 - r) /\ j <= msglen * (size - 1 - r) + msglen
        THEN data[j - msglen * (size - 1 - r)] ELSE buf[j]]
\* memcpy((void*)((ptrdiff_t)info->rbuf + info->msglen * r), data.data(), info->msglen)
Memcpy(buf, r, data) ==
    [j \in 1 .. Len(buf) |->
        IF j > msglen * r /\ j <= msglen * r + msglen
        THEN data[j - msglen * r] ELSE buf[j]]

\* ------------------------------------------------------------------ Init
\* no library call made yet, no object constructed
NoComm ==
    [state |-> "none", err |-> "", level |-> "", context |-> "null",
     worker |-> "null", lib |-> "null", calls |-> << >>, acquired |-> << >>]

InitOOB ==
    /\ store = << >>
    /\ keyRound = << >>
    /\ round = [p \in Ranks |-> 0]
    /\ pc = [p \in Ranks |-> "idle"]
    /\ idx = [p \in Ranks |-> 0]
    /\ ret = [p \in Ranks |-> NoStatus]
    /\ rbuf = [p \in Ranks |-> FreshBuf]
    /\ done_by = {}
    /\ ndel = [n \in Rounds |-> [r \in Ranks |-> 0]]
    /\ misuse = [p \in Ranks |-> FALSE]

\* no request handed out yet
NoReq == [status |-> NoStatus, nfree |-> 0, released |-> 0, err |-> ""]

InitReq ==
    /\ ucx_req = NoReq
    /\ ucc_req = NoReq

\* a CommTraceLogger as its constructor leaves it
InitTrace ==
    /\ comms_trace_ = << >>
    /\ seqnum = 0
    /\ curRoot_ = -1
    /\ curInSplitSizes_ = << >>
    /\ curOutSplitSizes_ = << >>
    /\ recorded = << >>
    /\ gaveRoot = FALSE
    /\ gaveSplit = FALSE

Init ==
    /\ size \in 1 .. MaxSize
    /\ msglen \in 1 .. MaxBuf
    /\ size * msglen <= MaxBuf
    /\ InitOOB
    /\ ucx = NoComm
    /\ ucc = NoComm
    /\ InitReq
    /\ InitTrace

\* a store call that throws: the catch block returns UCC_ERR_NO_MESSAGE
Throw(p, to) ==
    /\ pc' = [pc EXCEPT ![p] = to]
    /\ ret' = [ret EXCEPT ![p] = UCC_ERR_NO_MESSAGE]
    /\ idx' = [idx EXCEPT ![p] = 0]

\* --------------------------------------------------------- oob_allgather
oob_allgather(p, thr) ==
    /\ pc[p] = "idle"
    /\ Calls(size) < MaxCalls
    /\ round' = [round EXCEPT ![p] = @ + 1]
    /\ misuse' = [misuse EXCEPT ![p] = FALSE]
    /\ IF thr
       THEN /\ Throw(p, "init_failed")
            /\ UNCHANGED <<store, keyRound, rbuf>>
       ELSE /\ store' = StoreSet(store, teamr(p), Sbuf(p, round[p] + 1))
            /\ keyRound' = TagSet(keyRound, teamr(p), round[p] + 1)
            /\ rbuf' = [rbuf EXCEPT ![p] = FreshBuf]
            /\ pc' = [pc EXCEPT ![p] = "polling"]
            /\ ret' = [ret EXCEPT ![p] = UCC_OK]
            /\ idx' = [idx EXCEPT ![p] = 0]
    /\ UNCHANGED <<size, msglen, done_by, ndel>>

\* ---------------------------------------------------- oob_allgather_test
\* a single loop that copies each key as soon as it has seen it
TestCheckStepCopying(p, r, thr) ==
    /\ IF thr
       THEN /\ Throw(p, "test_failed")
            /\ UNCHANGED rbuf
       ELSE IF ~StoreCheck(store, teamr(r))
            THEN /\ pc' = [pc EXCEPT ![p] = "polling"]
                 /\ ret' = [ret EXCEPT ![p] = UCC_INPROGRESS]
                 /\ idx' = [idx EXCEPT ![p] = 0]
                 /\ UNCHANGED rbuf
            ELSE /\ rbuf' = [rbuf EXCEPT ![p] = Memcpy(@, r, StoreGet(store, teamr(r)))]
                 /\ IF r + 1 < size
                    THEN /\ pc' = [pc EXCEPT ![p] = "check"]
                         /\ idx' = [idx EXCEPT ![p] = r + 1]
                         /\ UNCHANGED ret
                    ELSE /\ pc' = [pc EXCEPT ![p] = "complete"]
                         /\ ret' = [ret EXCEPT ![p] = UCC_OK]
                         /\ idx' = [idx EXCEPT ![p] = 0]
    /\ UNCHANGED <<size, msglen, store, keyRound, round, done_by, ndel>>

\* a first loop that stops one key short
TestCheckStepShort(p, r, thr) ==
    /\ IF thr
       THEN Throw(p, "test_failed")
       ELSE IF ~StoreCheck(store, teamr(r))
            THEN /\ pc' = [pc EXCEPT ![p] = "polling"]
                 /\ ret' = [ret EXCEPT ![p] = UCC_INPROGRESS]
                 /\ idx' = [idx EXCEPT ![p] = 0]
            ELSE IF r + 1 < size - 1
                 THEN /\ pc' = [pc EXCEPT ![p] = "check"]
                      /\ idx' = [idx EXCEPT ![p] = r + 1]
                      /\ UNCHANGED ret
                 ELSE /\ pc' = [pc EXCEPT ![p] = "get"]
                      /\ idx' = [idx EXCEPT ![p] = 0]
                      /\ UNCHANGED ret
    /\ UNCHANGED <<size, msglen, store, keyRound, round, rbuf, done_by, ndel>>

\* one pass of the first loop: store->check of key r
TestCheckStep(p, r, thr) ==
    /\ IF thr
       THEN Throw(p, "test_failed")
       ELSE IF ~StoreCheck(store, teamr(r))
            THEN /\ pc' = [pc EXCEPT ![p] = "polling"]
                 /\ ret' = [ret EXCEPT ![p] = UCC_INPROGRESS]
                 /\ idx' = [idx EXCEPT ![p] = 0]
            ELSE IF r + 1 < size
                 THEN /\ pc' = [pc EXCEPT ![p] = "check"]
                      /\ idx' = [idx EXCEPT ![p] = r + 1]
                      /\ UNCHANGED ret
                 ELSE /\ pc' = [pc EXCEPT ![p] = "get"]
                      /\ idx' = [idx EXCEPT ![p] = 0]
                      /\ UNCHANGED ret
    /\ UNCHANGED <<size, msglen, store, keyRound, round, rbuf, done_by, ndel>>

\* the caller polls again after UCC_OK from oob_allgather or UCC_INPROGRESS
TestCheck(p, thr) ==
    /\ \/ /\ pc[p] = "polling"
          /\ TestCheckStep(p, 0, thr)
       \/ /\ pc[p] = "check"
          /\ TestCheckStep(p, idx[p], thr)
    /\ UNCHANGED misuse

\* a second loop that, when a get throws, restores the receive buffer
TestGetRestoring(p, thr) ==
    /\ pc[p] = "get"
    /\ IF thr \/ ~StoreCheck(store, teamr(idx[p]))
       THEN /\ Throw(p, "test_failed")
            /\ rbuf' = [rbuf EXCEPT ![p] = FreshBuf]
       ELSE /\ rbuf' = [rbuf EXCEPT ![p] = Memcpy(@, idx[p], StoreGet(store, teamr(idx[p])))]
            /\ IF idx[p] + 1 < size
               THEN /\ idx' = [idx EXCEPT ![p] = @ + 1]
                    /\ UNCHANGED <<pc, ret>>
               ELSE /\ pc' = [pc EXCEPT ![p] = "complete"]
                    /\ ret' = [ret EXCEPT ![p] = UCC_OK]
                    /\ idx' = [idx EXCEPT ![p] = 0]
    /\ UNCHANGED <<size, msglen, store, keyRound, round, done_by, ndel, misuse>>

\* one pass of the second loop: store->get of key r, then the memcpy
TestGet(p, thr) ==
    /\ pc[p] = "get"
    /\ IF thr \/ ~StoreCheck(store, teamr(idx[p]))
       THEN /\ Throw(p, "test_failed")
            /\ UNCHANGED rbuf
       ELSE /\ rbuf' = [rbuf EXCEPT ![p] = Memcpy(@, idx[p], StoreGet(store, teamr(idx[p])))]
            /\ IF idx[p] + 1 < size
               THEN /\ idx' = [idx EXCEPT ![p] = @ + 1]
                    /\ UNCHANGED <<pc, ret>>
               ELSE /\ pc' = [pc EXCEPT ![p] = "complete"]
                    /\ ret' = [ret EXCEPT ![p] = UCC_OK]
                    /\ idx' = [idx EXCEPT ![p] = 0]
    /\ UNCHANGED <<size, msglen, store, keyRound, round, done_by, ndel, misuse>>

\* ---------------------------------------------------- oob_allgather_free
\* a test that makes the first arriver clean up
LastArriverBad(num_done) == num_done = 1
\* if (num_done == info->size)
LastArriver(num_done) == num_done = size

\* an increment of the counter by two
FreeAddStepByTwo(p, thr) ==
    /\ IF thr
       THEN /\ Throw(p, "free_failed")
            /\ UNCHANGED <<store, keyRound, done_by>>
       ELSE /\ store' = StoreAdd(store, ag_done, 2)
            /\ keyRound' = TagAdd(keyRound, ag_done, round[p])
            /\ done_by' = done_by \cup {<<p, round[p]>>}
            /\ pc' = [pc EXCEPT ![p] =
                        IF LastArriver(StoreAddValue(store, ag_done, 2))
                        THEN "free_del_done" ELSE "free_wait"]
            /\ idx' = [idx EXCEPT ![p] = 0]
            /\ UNCHANGED ret
    /\ UNCHANGED <<size, msglen, round, rbuf, ndel>>

\* int num_done = info->store->add({info->getKey("ag_done")}, 1)
FreeAddStep(p, thr) ==
    /\ IF thr
       THEN /\ Throw(p, "free_failed")
            /\ UNCHANGED <<store, keyRound, done_by>>
       ELSE /\ store' = StoreAdd(store, ag_done, 1)
            /\ keyRound' = TagAdd(keyRound, ag_done, round[p])
            /\ done_by' = done_by \cup {<<p, round[p]>>}
            /\ pc' = [pc EXCEPT ![p] =
                        IF LastArriver(StoreAddValue(store, ag_done, 1))
                        THEN "free_del_done" ELSE "free_wait"]
            /\ idx' = [idx EXCEPT ![p] = 0]
            /\ UNCHANGED ret
    /\ UNCHANGED <<size, msglen, round, rbuf, ndel>>

\* the caller frees the request after its poll returned UCC_OK
FreeAdd(p, thr) ==
    /\ pc[p] = "complete"
    /\ FreeAddStep(p, thr)
    /\ UNCHANGED misuse

\* a last arriver that leaves the counter in the store
FreeDelDoneBad(p, thr) ==
    /\ pc[p] = "free_del_done"
    /\ IF thr
       THEN Throw(p, "free_failed")
       ELSE /\ pc' = [pc EXCEPT ![p] = "free_del_team"]
            /\ idx' = [idx EXCEPT ![p] = 0]
            /\ UNCHANGED ret
    /\ UNCHANGED <<size, msglen, store, keyRound, done_by, round, rbuf, ndel, misuse>>

\* info->store->deleteKey(info->getKey("ag_done"))
FreeDelDone(p, thr) ==
    /\ pc[p] = "free_del_done"
    /\ IF thr
       THEN /\ Throw(p, "free_failed")
            /\ UNCHANGED <<store, keyRound, done_by>>
       ELSE /\ store' = StoreDelete(store, ag_done)
            /\ keyRound' = TagDelete(keyRound, ag_done)
            /\ done_by' = {}
            /\ pc' = [pc EXCEPT ![p] = "free_del_team"]
            /\ idx' = [idx EXCEPT ![p] = 0]
            /\ UNCHANGED ret
    /\ UNCHANGED <<size, msglen, round, rbuf, ndel, misuse>>

\* a first loop that deletes the key of info->rank on every pass
FreeDelTeamBad(p, thr) ==
    /\ pc[p] = "free_del_team"
    /\ IF thr
       THEN /\ Throw(p, "free_failed")
            /\ UNCHANGED <<store, keyRound, ndel>>
       ELSE /\ store' = StoreDelete(store, teamr(p))
            /\ keyRound' = TagDelete(keyRound, teamr(p))
            /\ ndel' = [ndel EXCEPT ![round[p]][p] = @ + 1]
            /\ IF idx[p] + 1 < size
               THEN /\ idx' = [idx EXCEPT ![p] = @ + 1]
                    /\ UNCHANGED pc
               ELSE /\ pc' = [pc EXCEPT ![p] = "free_add_free"]
                    /\ idx' = [idx EXCEPT ![p] = 0]
            /\ UNCHANGED ret
    /\ UNCHANGED <<size, msglen, round, rbuf, done_by, misuse>>

\* first loop of the last arriver: deleteKey of every publish key
FreeDelTeam(p, thr) ==
    /\ pc[p] = "free_del_team"
    /\ IF thr
       THEN /\ Throw(p, "free_failed")
            /\ UNCHANGED <<store, keyRound, ndel>>
       ELSE /\ store' = StoreDelete(store, teamr(idx[p]))
            /\ keyRound' = TagDelete(keyRound, teamr(idx[p]))
            /\ ndel' = [ndel EXCEPT ![round[p]][idx[p]] = @ + 1]
            /\ IF idx[p] + 1 < size
               THEN /\ idx' = [idx EXCEPT ![p] = @ + 1]
                    /\ UNCHANGED pc
               ELSE /\ pc' = [pc EXCEPT ![p] = "free_add_free"]
                    /\ idx' = [idx EXCEPT ![p] = 0]
            /\ UNCHANGED ret
    /\ UNCHANGED <<size, msglen, round, rbuf, done_by, misuse>>

\* a second loop that sets the release key of info->rank on every pass
FreeAddFreeOwn(p, thr) ==
    /\ pc[p] = "free_add_free"
    /\ IF thr
       THEN /\ Throw(p, "free_failed")
            /\ UNCHANGED <<store, keyRound>>
       ELSE /\ store' = StoreAdd(store, ag_free(p), 1)
            /\ keyRound' = TagAdd(keyRound, ag_free(p), round[p])
            /\ IF idx[p] + 1 < size
               THEN /\ idx' = [idx EXCEPT ![p] = @ + 1]
                    /\ UNCHANGED pc
               ELSE /\ pc' = [pc EXCEPT ![p] = "free_del_own"]
                    /\ idx' = [idx EXCEPT ![p] = 0]
            /\ UNCHANGED ret
    /\ UNCHANGED <<size, msglen, round, rbuf, done_by, ndel, misuse>>

\* a second loop that, when an add throws, takes back the release keys set
FreeAddFreeRollback(p, thr) ==
    /\ pc[p] = "free_add_free"
    /\ IF thr
       THEN /\ Throw(p, "free_failed")
            /\ store' = [k \in (DOMAIN store) \ {ag_free(r) : r \in Ranks} |-> store[k]]
            /\ keyRound' = [k \in (DOMAIN keyRound) \ {ag_free(r) : r \in Ranks} |-> keyRound[k]]
       ELSE /\ store' = StoreAdd(store, ag_free(idx[p]), 1)
            /\ keyRound' = TagAdd(keyRound, ag_free(idx[p]), round[p])
            /\ IF idx[p] + 1 < size
               THEN /\ idx' = [idx EXCEPT ![p] = @ + 1]
                    /\ UNCHANGED pc
               ELSE /\ pc' = [pc EXCEPT ![p] = "free_del_own"]
                    /\ idx' = [idx EXCEPT ![p] = 0]
            /\ UNCHANGED ret
    /\ UNCHANGED <<size, msglen, round, rbuf, done_by, ndel, misuse>>

\* second loop of the last arriver: add of every release key
FreeAddFree(p, thr) ==
    /\ pc[p] = "free_add_free"
    /\ IF thr
       THEN /\ Throw(p, "free_failed")
            /\ UNCHANGED <<store, keyRound>>
       ELSE /\ store' = StoreAdd(store, ag_free(idx[p]), 1)
            /\ keyRound' = TagAdd(keyRound, ag_free(idx[p]), round[p])
            /\ IF idx[p] + 1 < size
               THEN /\ idx' = [idx EXCEPT ![p] = @ + 1]
                    /\ UNCHANGED pc
               ELSE /\ pc' = [pc EXCEPT ![p] = "free_del_own"]
                    /\ idx' = [idx EXCEPT ![p] = 0]
            /\ UNCHANGED ret
    /\ UNCHANGED <<size, msglen, round, rbuf, done_by, ndel, misuse>>

\* a wait that returns whether or not the key is there
FreeWaitNoBlock(p, thr) ==
    /\ pc[p] = "free_wait"
    /\ IF thr
       THEN Throw(p, "free_failed")
       ELSE /\ pc' = [pc EXCEPT ![p] = "free_del_own"]
            /\ UNCHANGED <<ret, idx>>
    /\ UNCHANGED <<size, msglen, store, keyRound, round, rbuf, done_by, ndel, misuse>>

\* info->store->wait({info->getKey("ag_free" + std::to_string(info->rank))})
FreeWait(p, thr) ==
    /\ pc[p] = "free_wait"
    /\ IF thr
       THEN Throw(p, "free_failed")
       ELSE /\ StoreCheck(store, ag_free(p))
            /\ pc' = [pc EXCEPT ![p] = "free_del_own"]
            /\ UNCHANGED <<ret, idx>>
    /\ UNCHANGED <<size, msglen, store, keyRound, round, rbuf, done_by, ndel, misuse>>

\* a release that returns without deleting its own release key
FreeDelOwnBad(p, thr) ==
    /\ pc[p] = "free_del_own"
    /\ IF thr
       THEN Throw(p, "free_failed")
       ELSE /\ pc' = [pc EXCEPT ![p] = "idle"]
            /\ ret' = [ret EXCEPT ![p] = UCC_OK]
            /\ idx' = [idx EXCEPT ![p] = 0]
    /\ UNCHANGED <<size, msglen, store, keyRound, round, rbuf, done_by, ndel, misuse>>

\* info->store->deleteKey(info->getKey("ag_free" + std::to_string(info->rank)))
FreeDelOwn(p, thr) ==
    /\ pc[p] = "free_del_own"
    /\ IF thr
       THEN /\ Throw(p, "free_failed")
            /\ UNCHANGED <<store, keyRound>>
       ELSE /\ store' = StoreDelete(store, ag_free(p))
            /\ keyRound' = TagDelete(keyRound, ag_free(p))
            /\ pc' = [pc EXCEPT ![p] = "idle"]
            /\ ret' = [ret EXCEPT ![p] = UCC_OK]
            /\ idx' = [idx EXCEPT ![p] = 0]
    /\ UNCHANGED <<size, msglen, round, rbuf, done_by, ndel, misuse>>

\* ------------------------------------------------------------------ Next
Next ==
    \/ \E p \in Ranks, thr \in BOOLEAN : oob_allgather(p, thr) /\ UNCHANGED restvars
    \/ \E p \in Ranks, thr \in BOOLEAN : TestCheck(p, thr) /\ UNCHANGED restvars
    \/ \E p \in Ranks, thr \in BOOLEAN : TestGet(p, thr) /\ UNCHANGED restvars
    \/ \E p \in Ranks, thr \in BOOLEAN : FreeAdd(p, thr) /\ UNCHANGED restvars
    \/ \E p \in Ranks, thr \in BOOLEAN : FreeDelDone(p, thr) /\ UNCHANGED restvars
    \/ \E p \in Ranks, thr \in BOOLEAN : FreeDelTeam(p, thr) /\ UNCHANGED restvars
    \/ \E p \in Ranks, thr \in BOOLEAN : FreeAddFree(p, thr) /\ UNCHANGED restvars
    \/ \E p \in Ranks, thr \in BOOLEAN : FreeWait(p, thr) /\ UNCHANGED restvars
    \/ \E p \in Ranks, thr \in BOOLEAN : FreeDelOwn(p, thr) /\ UNCHANGED restvars

Spec == Init /\ [][Next]_vars

\* --------------------------------------------- runs without store failure
\* No store call throws, every caller keeps polling a request that is in
\* progress and frees a request that completed, and every peer process keeps
\* running: each peer's next store call is eventually made.
PeerStep(p) ==
    \/ oob_allgather(p, FALSE)
    \/ TestCheck(p, FALSE)
    \/ TestGet(p, FALSE)
    \/ FreeAdd(p, FALSE)
    \/ FreeDelDone(p, FALSE)
    \/ FreeDelTeam(p, FALSE)
    \/ FreeAddFree(p, FALSE)
    \/ FreeWait(p, FALSE)
    \/ FreeDelOwn(p, FALSE)

NextNoFail ==
    \/ \E p \in Ranks : oob_allgather(p, FALSE) /\ UNCHANGED restvars
    \/ \E p \in Ranks : TestCheck(p, FALSE) /\ UNCHANGED restvars
    \/ \E p \in Ranks : TestGet(p, FALSE) /\ UNCHANGED restvars
    \/ \E p \in Ranks : FreeAdd(p, FALSE) /\ UNCHANGED restvars
    \/ \E p \in Ranks : FreeDelDone(p, FALSE) /\ UNCHANGED restvars
    \/ \E p \in Ranks : FreeDelTeam(p, FALSE) /\ UNCHANGED restvars
    \/ \E p \in Ranks : FreeAddFree(p, FALSE) /\ UNCHANGED restvars
    \/ \E p \in Ranks : FreeWait(p, FALSE) /\ UNCHANGED restvars
    \/ \E p \in Ranks : FreeDelOwn(p, FALSE) /\ UNCHANGED restvars

SpecFair ==
    /\ Init
    /\ [][NextNoFail]_vars
    /\ \A p \in 0 .. (MaxSize - 1) :
          WF_vars(p \in Ranks /\ PeerStep(p) /\ UNCHANGED restvars)

\* ------------------------------------------- calls made out of order
\* oob_allgather_free on a request whose poll has not returned UCC_OK, or
\* whose oob_allgather failed: the function looks at no request state
FreeOutOfOrder(p, thr) ==
    /\ pc[p] \in {"polling", "init_failed"}
    /\ FreeAddStep(p, thr)
    /\ misuse' = [misuse EXCEPT ![p] = TRUE]

\* oob_allgather_test on a request whose oob_allgather failed
TestOutOfOrder(p, thr) ==
    /\ pc[p] = "init_failed"
    /\ TestCheckStep(p, 0, thr)
    /\ misuse' = [misuse EXCEPT ![p] = TRUE]

NextAnyCaller ==
    \/ Next
    \/ \E p \in Ranks, thr \in BOOLEAN : FreeOutOfOrder(p, thr) /\ UNCHANGED restvars
    \/ \E p \in Ranks, thr \in BOOLEAN : TestOutOfOrder(p, thr) /\ UNCHANGED restvars

SpecAnyCaller == Init /\ [][NextAnyCaller]_vars

\* ------------------------------------------------- communicator lifecycle
\* The library calls of a constructor or destructor run in one thread, so a
\* constructor is one step; the status each library call returns is an input.
UCS_THREAD_MODE_MULTI == "UCS_THREAD_MODE_MULTI"
UCSThreadModes == {"UCS_THREAD_MODE_SINGLE", "UCS_THREAD_MODE_SERIALIZED", UCS_THREAD_MODE_MULTI}
UCC_THREAD_MULTIPLE == "UCC_THREAD_MULTIPLE"
UCCThreadModes == {"UCC_THREAD_SINGLE", "UCC_THREAD_FUNNELED", UCC_THREAD_MULTIPLE}

NoThreadsUCX == "ucx library wasn't initialized with multithreading support"
NoThreadsUCC == "ucc library wasn't initialized with multithreading support"

\* the resource a library call gives back, "" for a call that releases none
ReleaseOf(call) ==
    CASE call = "ucp_config_release" -> "config"
      [] call = "ucp_cleanup" -> "context"
      [] call = "ucp_worker_destroy" -> "worker"
      [] call = "ucc_lib_config_release" -> "lib_config"
      [] call = "ucc_finalize" -> "lib"
      [] call = "ucc_context_config_release" -> "context_config"
      [] call = "ucc_context_destroy" -> "context"
      [] OTHER -> ""

\* ---- CommUCX::CommUCX
UCXInputs ==
    [query : BOOLEAN, level : UCSThreadModes, config : BOOLEAN, init : BOOLEAN,
     worker : BOOLEAN]

\* a failed ucp_worker_create that throws without ucp_cleanup
UCXWorkerCreateFailedLeak(o) ==
    [o EXCEPT !.state = "failed", !.err = "UCX failed to create UCP worker"]

\* if (st != UCS_OK) { ...; ucp_cleanup(context); throw ...; }
UCXWorkerCreateFailed(o) ==
    [o EXCEPT !.state = "failed", !.err = "UCX failed to create UCP worker",
              !.calls = Append(@, "ucp_cleanup")]

CommUCX_ctor(in) ==
    LET queried == [NoComm EXCEPT !.calls = <<"ucp_lib_query">>]
        read == [queried EXCEPT !.level = in.level,
                                !.calls = Append(@, "ucp_config_read")]
        inited == [read EXCEPT !.calls = Append(@, "ucp_init"),
                               !.acquired = <<"config">>]
        created == [inited EXCEPT !.context = "h",
                                  !.acquired = Append(@, "context"),
                                  !.calls = @ \o <<"ucp_config_release", "ucp_worker_create">>]
    IN  IF ~in.query
        THEN [queried EXCEPT !.state = "failed",
                             !.err = "failed to query UCP lib attributes"]
        ELSE IF in.level # UCS_THREAD_MODE_MULTI
        THEN [queried EXCEPT !.state = "failed", !.err = NoThreadsUCX,
                             !.level = in.level]
        ELSE IF ~in.config
        THEN [read EXCEPT !.state = "failed", !.err = "failed to read UCP config"]
        ELSE IF ~in.init
        THEN [inited EXCEPT !.state = "failed", !.err = "failed to init UCP context"]
        ELSE IF ~in.worker
        THEN UCXWorkerCreateFailed(created)
        ELSE [created EXCEPT !.state = "ready", !.worker = "h",
                             !.acquired = Append(@, "worker")]

\* ---- CommUCX::~CommUCX
CommUCX_dtor(o) ==
    [o EXCEPT !.state = "destroyed",
              !.calls = @ \o (IF o.worker # "null" THEN <<"ucp_worker_destroy">> ELSE << >>)
                          \o (IF o.context # "null" THEN <<"ucp_cleanup">> ELSE << >>),
              !.worker = "null",
              !.context = "null"]

\* ---- CommUCC::CommUCC
UCCInputs ==
    [config : BOOLEAN, init : BOOLEAN, attr : BOOLEAN, level : UCCThreadModes,
     ctxcfg : BOOLEAN, modify : BOOLEAN, create : BOOLEAN, finalize : BOOLEAN]

\* a failed ucc_context_create that throws without ucc_finalize
UCCContextCreateFailedLeak(o, fin) ==
    [o EXCEPT !.state = "failed", !.err = "UCC failed to create UCC context"]

\* if (st != UCC_OK) { TORCH_UCC_CHECK(ucc_finalize(lib), ...); ...; throw ...; }
UCCContextCreateFailed(o, fin) ==
    [o EXCEPT !.state = "failed",
              !.err = IF fin THEN "UCC failed to create UCC context"
                      ELSE "failed to finalize UCC library when failing to creat UCC context",
              !.calls = Append(@, "ucc_finalize")]

CommUCC_ctor(in) ==
    LET read == [NoComm EXCEPT !.calls = <<"ucc_lib_config_read">>]
        inited == [read EXCEPT !.calls = Append(@, "ucc_init"),
                               !.acquired = <<"lib_config">>]
        asked == [inited EXCEPT !.lib = "h",
                                !.acquired = Append(@, "lib"),
                                !.calls = @ \o <<"ucc_lib_config_release", "ucc_lib_get_attr">>]
        ctxread == [asked EXCEPT !.level = in.level,
                                 !.calls = Append(@, "ucc_context_config_read")]
        modified == [ctxread EXCEPT !.acquired = Append(@, "context_config"),
                                    !.calls = Append(@, "ucc_context_config_modify")]
        created == [modified EXCEPT
                       !.calls = @ \o <<"ucc_context_create", "ucc_context_config_release">>]
    IN  IF ~in.config
        THEN [read EXCEPT !.state = "failed", !.err = "failed to read UCC lib config"]
        ELSE IF ~in.init
        THEN [inited EXCEPT !.state = "failed", !.err = "failed to init UCC lib"]
        ELSE IF ~in.attr
        THEN [asked EXCEPT !.state = "failed", !.err = "failed to query for lib attr"]
        ELSE IF in.level # UCC_THREAD_MULTIPLE
        THEN [asked EXCEPT !.state = "failed", !.err = NoThreadsUCC, !.level = in.level]
        ELSE IF ~in.ctxcfg
        THEN [ctxread EXCEPT
                 !.state = "failed",
                 !.err = IF in.finalize THEN "failed to read UCC context config"
                         ELSE "failed to finalize UCC library when failing to read UCC context config",
                 !.calls = Append(@, "ucc_finalize")]
        ELSE IF ~in.modify
        THEN [modified EXCEPT
                 !.state = "failed",
                 !.err = "UCC failed to modify UCC context config",
                 !.calls = @ \o <<"ucc_context_config_release", "ucc_finalize">>]
        ELSE IF ~in.create
        THEN UCCContextCreateFailed(created, in.finalize)
        ELSE [created EXCEPT !.state = "ready", !.context = "h",
                             !.acquired = Append(@, "context")]

\* ---- CommUCC::~CommUCC: each TORCH_UCC_CHECK throws when its call fails
UCCDtorInputs == [destroy : BOOLEAN, finalize : BOOLEAN]

CommUCC_dtor(o, in) ==
    LET c1 == IF o.context # "null" THEN Append(o.calls, "ucc_context_destroy") ELSE o.calls
        c2 == IF o.lib # "null" THEN Append(c1, "ucc_finalize") ELSE c1
    IN  IF o.context # "null" /\ ~in.destroy
        THEN [o EXCEPT !.state = "destroy_failed", !.calls = c1,
                       !.err = "failed to destory UCC context"]
        ELSE IF o.lib # "null" /\ ~in.finalize
        THEN [o EXCEPT !.state = "destroy_failed", !.calls = c2,
                       !.err = "failed to finalize UCC library"]
        ELSE [o EXCEPT !.state = "destroyed", !.calls = c2,
                       !.context = "null", !.lib = "null"]

\* ---- the steps of the owner of the two communicators
UCXConstruct ==
    /\ ucx.state = "none"
    /\ \E in \in UCXInputs : ucx' = CommUCX_ctor(in)
    /\ UNCHANGED <<ucc, oobvars, reqvars, tracevars>>

UCXDestroy ==
    /\ ucx.state \in {"ready", "destroyed"}
    /\ ucx' = CommUCX_dtor(ucx)
    /\ UNCHANGED <<ucc, oobvars, reqvars, tracevars>>

UCCConstruct ==
    /\ ucc.state = "none"
    /\ \E in \in UCCInputs : ucc' = CommUCC_ctor(in)
    /\ UNCHANGED <<ucx, oobvars, reqvars, tracevars>>

UCCDestroy ==
    /\ ucc.state \in {"ready", "destroyed"}
    /\ \E in \in UCCDtorInputs : ucc' = CommUCC_dtor(ucc, in)
    /\ UNCHANGED <<ucx, oobvars, reqvars, tracevars>>

\* ------------------------------------------- requests of a communicator
\* params.request_init: a request handed out by UCX starts as UCC_INPROGRESS
UCXPost ==
    /\ ucx.state = "ready"
    /\ ucx_req = NoReq
    /\ ucx_req' = [NoReq EXCEPT !.status = UCC_INPROGRESS]
    /\ UNCHANGED <<commvars, ucc_req, oobvars, tracevars>>

\* CommUCX::progress: ucp_worker_progress completes the outstanding operation
UCXProgress ==
    /\ ucx.state = "ready"
    /\ ucx_req.status = UCC_INPROGRESS
    /\ ucx_req.released = 0
    /\ ucx_req' = [ucx_req EXCEPT !.status = UCC_OK]
    /\ UNCHANGED <<commvars, ucc_req, oobvars, tracevars>>

\* the ways ucp_request_free can end: on a request it was already given back,
\* the write to request->status and the second release have no defined outcome
UCXFreeOutcomes(q) == IF q.released > 0 THEN {"", "aborted"} ELSE {""}

\* CommUCX::free_request: request->status = UCC_INPROGRESS; ucp_request_free(request)
CommUCX_free_request(q, out) ==
    [q EXCEPT !.status = UCC_INPROGRESS,
              !.nfree = @ + 1,
              !.released = @ + 1,
              !.err = out]

UCXFreeRequest ==
    /\ ucx.state = "ready"
    /\ ucx_req.status # NoStatus
    /\ ucx_req.err # "aborted"
    /\ ucx_req.nfree < MaxFree
    /\ \E out \in UCXFreeOutcomes(ucx_req) : ucx_req' = CommUCX_free_request(ucx_req, out)
    /\ UNCHANGED <<commvars, ucc_req, oobvars, tracevars>>

\* a collective posted on the UCC context: the request is in progress
UCCPost ==
    /\ ucc.state = "ready"
    /\ ucc_req = NoReq
    /\ ucc_req' = [NoReq EXCEPT !.status = UCC_INPROGRESS]
    /\ UNCHANGED <<commvars, ucx_req, oobvars, tracevars>>

\* CommUCC::progress: TORCH_UCC_CHECK(ucc_context_progress(context), ...)
CommUCC_progress(q, ok) ==
    IF ok
    THEN [q EXCEPT !.status = UCC_OK]
    ELSE [q EXCEPT !.err = "failed to progress UCC collective"]

UCCProgress ==
    /\ ucc.state = "ready"
    /\ ucc_req.status = UCC_INPROGRESS
    /\ ucc_req.released = 0
    /\ \E ok \in BOOLEAN : ucc_req' = CommUCC_progress(ucc_req, ok)
    /\ UNCHANGED <<commvars, ucx_req, oobvars, tracevars>>

\* CommUCC::free_request: TORCH_UCC_CHECK(ucc_collective_finalize(request), ...)
\* the status ucc_collective_finalize returns is the library's choice; a
\* request the library refuses is not given back
CommUCC_free_request(q, fin) ==
    [q EXCEPT !.nfree = @ + 1,
              !.released = IF fin THEN @ + 1 ELSE @,
              !.err = IF fin THEN "" ELSE "failed to release UCC request"]

UCCFreeRequest ==
    /\ ucc.state = "ready"
    /\ ucc_req.status # NoStatus
    /\ ucc_req.nfree < MaxFree
    /\ \E fin \in BOOLEAN : ucc_req' = CommUCC_free_request(ucc_req, fin)
    /\ UNCHANGED <<commvars, ucx_req, oobvars, tracevars>>

InitComm ==
    /\ size = 1
    /\ msglen = 1
    /\ InitOOB
    /\ ucx = NoComm
    /\ ucc = NoComm
    /\ InitReq
    /\ InitTrace

NextComm ==
    \/ UCXConstruct
    \/ UCXDestroy
    \/ UCCConstruct
    \/ UCCDestroy
    \/ UCXPost
    \/ UCXProgress
    \/ UCXFreeRequest
    \/ UCCPost
    \/ UCCProgress
    \/ UCCFreeRequest

SpecComm == InitComm /\ [][NextComm]_vars

\* ------------------------------------------------------ CommTraceLogger
\* The calls on one logger come from the thread that posts the collectives,
\* one after the other. A record is the text recordComms builds, kept as the
\* sequence of <<field, value>> pairs in the order they are appended (the
\* markers, startTime_ns, req, world_size, dtype and devType fields, which
\* depend on no state of the logger, are left out).
CommNames == {"broadcast", "alltoall_base"}
\* numel of inputTensors[0] and outputTensors[0], 0 for an empty list
Numels == {<<0, 0>>, <<4, 4>>}
\* -1, which the logger keeps for "no root", and the rank of a root
Roots == {-1, 0}
SplitSizes == {<< >>, <<2>>}

\* void CommTraceLogger::recordOptionalInfo(int root)
recordOptionalInfo_root(root) ==
    /\ curRoot_' = root
    /\ gaveRoot' = (root # -1)
    /\ UNCHANGED <<comms_trace_, seqnum, curInSplitSizes_, curOutSplitSizes_,
                   recorded, gaveSplit>>

\* void CommTraceLogger::recordOptionalInfo(outputSplitSizes, inputSplitSizes)
recordOptionalInfo_splits(outputSplitSizes, inputSplitSizes) ==
    /\ curOutSplitSizes_' = outputSplitSizes
    /\ curInSplitSizes_' = inputSplitSizes
    /\ gaveSplit' = (Len(outputSplitSizes) > 0 \/ Len(inputSplitSizes) > 0)
    /\ UNCHANGED <<comms_trace_, seqnum, curRoot_, recorded, gaveRoot>>

\* a seqnum that advances by two
NextSeqnumSkip(n) == n + 2
\* seqnum++ : the record gets n, the logger keeps n + 1
NextSeqnum(n) == n + 1

\* a recordComms that keeps the optional fields for the next record
KeepOptional(root, ins, outs) == <<root, ins, outs>>
\* curRoot_ = -1; curInSplitSizes_ = {}; curOutSplitSizes_ = {};
ResetOptional(root, ins, outs) == <<-1, << >>, << >>>>

\* the text of one record
TraceRecord(commName, inSize, outSize) ==
    LET common == <<<<"comms", commName>>, <<"seqnum", seqnum>>>>
        sized == IF inSize > 0 \/ outSize > 0
                 THEN common \o <<<<"in_msg_size", inSize>>, <<"out_msg_size", outSize>>>>
                 ELSE common
        rooted == IF curRoot_ # -1
                  THEN Append(sized, <<"root", curRoot_>>)
                  ELSE sized
    IN  IF Len(curInSplitSizes_) > 0 \/ Len(curOutSplitSizes_) > 0
        THEN rooted \o <<<<"in_split", curInSplitSizes_>>,
                         <<"out_split", curOutSplitSizes_>>>>
        ELSE rooted

\* void CommTraceLogger::recordComms(commName, workReq, rank, world_size, ...)
recordComms(commName, inSize, outSize) ==
    LET reset == ResetOptional(curRoot_, curInSplitSizes_, curOutSplitSizes_)
    IN  /\ Len(recorded) < MaxRecords
        /\ comms_trace_' = Append(comms_trace_, TraceRecord(commName, inSize, outSize))
        /\ seqnum' = NextSeqnum(seqnum)
        /\ curRoot_' = reset[1]
        /\ curInSplitSizes_' = reset[2]
        /\ curOutSplitSizes_' = reset[3]
        /\ recorded' = Append(recorded, commName)
        /\ gaveRoot' = FALSE
        /\ gaveSplit' = FALSE

NextTrace ==
    \/ \E root \in Roots : recordOptionalInfo_root(root) /\ UNCHANGED <<oobvars, commvars, reqvars>>
    \/ \E o \in SplitSizes, i \in SplitSizes : recordOptionalInfo_splits(o, i) /\ UNCHANGED <<oobvars, commvars, reqvars>>
    \/ \E c \in CommNames, n \in Numels : recordComms(c, n[1], n[2]) /\ UNCHANGED <<oobvars, commvars, reqvars>>

SpecTrace == InitComm /\ [][NextTrace]_vars

\* ------------------------------------------------------- claim helpers
\* the concatenation of all published buffers of round n in rank order
Concat(n) ==
    [j \in 1 .. (size * msglen) |->
        SbufByte((j - 1) \div msglen, n, ((j - 1) % msglen) + 1)]

InTest(p) == pc[p] \in {"polling", "check", "get"}
InFree(p) == pc[p] \in {"free_del_done", "free_del_team", "free_add_free",
                        "free_wait", "free_del_own", "free_failed"}
\* peer p's poll of its current round has returned UCC_OK
Completed(p) == pc[p] = "complete" \/ InFree(p) \/ (pc[p] = "idle" /\ round[p] > 0)
\* peer q has not published in round n
NotPublished(q, n) == round[q] < n \/ (round[q] = n /\ pc[q] = "init_failed")
\* peer p took the step
Stepped(p) ==
    \/ <<pc[p], idx[p], ret[p], round[p]>>' # <<pc[p], idx[p], ret[p], round[p]>>
    \/ rbuf'[p] # rbuf[p]
\* the key the next store->check of peer p looks at
CheckKey(p) == teamr(IF pc[p] = "polling" THEN 0 ELSE idx[p])

\* C1: whenever a peer's poll has returned success, its receive buffer is the
\* concatenation of all S published buffers of its round in ascending rank
\* order, so all peers that completed a round hold identical buffers.
C1_RankOrderedConcat ==
    \A p \in Ranks :
        Completed(p) =>
            /\ rbuf[p] = Concat(round[p])
            /\ \A q \in Ranks :
                  (Completed(q) /\ round[q] = round[p]) => rbuf[q] = rbuf[p]

W_C1 ==
    /\ size = MaxSize
    /\ msglen > 1
    /\ \A p \in Ranks : pc[p] = "complete" /\ rbuf[p] = Concat(1)

C3_NamespaceDrained ==
    (\A p \in Ranks : pc[p] = "idle" /\ round[p] = round[0]) => DOMAIN store = {}

W_C3 ==
    /\ size = MaxSize
    /\ \A p \in Ranks : pc[p] = "idle" /\ round[p] = 1

\* C4: each publish key is deleted at most once per round and exactly once
\* by the time the round is over, never before every peer's poll of that
\* round has returned UCC_OK, so a poll in its second loop always finds the
\* keys it still has to get.
C4_PublishKeysDeletedOnce ==
    /\ \A n \in Rounds, r \in Ranks :
          /\ ndel[n][r] <= 1
          /\ (\A p \in Ranks : round[p] > n \/ (round[p] = n /\ pc[p] = "idle"))
                => ndel[n][r] = 1
          /\ ndel[n][r] > 0 =>
                \A p \in Ranks : round[p] > n \/ (round[p] = n /\ Completed(p))
    /\ \A p \in Ranks :
          pc[p] = "get" => \A r \in idx[p] .. (size - 1) : StoreCheck(store, teamr(r))

W_C4 ==
    /\ size = MaxSize
    /\ \A r \in Ranks : ndel[1][r] = 1 /\ ~StoreCheck(store, teamr(r))
    /\ \E p \in Ranks : pc[p] = "free_wait"

\* C5: while a peer polls in round n, every publish key in the store was
\* written in round n and holds that round's bytes, also when other peers
\* are still inside the release of round n-1; "ag_done" counts increments
\* of one round only.
C5_NoLeftoverFromEarlierRound ==
    /\ \A p \in Ranks :
          InTest(p) =>
             \A r \in Ranks :
                StoreCheck(store, teamr(r)) =>
                   /\ StoreGet(store, teamr(r)) = Sbuf(r, round[p])
                   /\ keyRound[teamr(r)] = round[p]
    /\ \A x \in done_by, y \in done_by : x[2] = y[2]
    /\ StoreCheck(store, ag_done) =>
          /\ StoreGet(store, ag_done) = Cardinality(done_by)
          /\ keyRound[ag_done] \in {x[2] : x \in done_by}

W_C5 ==
    /\ size = MaxSize
    /\ \E p \in Ranks, q \in Ranks :
          /\ round[p] = 2 /\ pc[p] = "polling" /\ ret[p] = UCC_INPROGRESS
          /\ round[q] = 1 /\ pc[q] = "free_del_own"

\* C6 as claimed: the store never holds keys of two rounds at once.
CE_C6 ==
    \A k1 \in DOMAIN keyRound, k2 \in DOMAIN keyRound : keyRound[k1] = keyRound[k2]

\* C6 as amended: when a peer has started a round, the only keys of earlier
\* rounds still in the store are release keys of other ranks that have not
\* yet returned from that earlier round's release; publish keys, "ag_done"
\* and the peer's own release key of the earlier round are gone.
C6_OnlyForeignReleaseKeysRemain ==
    \A k \in DOMAIN keyRound, p \in Ranks :
        keyRound[k] < round[p] =>
            \E r \in Ranks \ {p} :
                /\ k = ag_free(r)
                /\ round[r] = keyRound[k]
                /\ pc[r] \in {"free_wait", "free_del_own", "free_add_free", "free_failed"}

W_C6 ==
    /\ size = MaxSize
    /\ \E k1 \in DOMAIN keyRound, k2 \in DOMAIN keyRound : keyRound[k1] < keyRound[k2]

\* C7 as claimed: a call made out of order (poll or release after a failed
\* oob_allgather, release before the poll returned UCC_OK) is rejected: it
\* returns an error without touching the store or entering its body.
CE_C7 ==
    [][\A p \in Ranks :
          (misuse'[p] /\ ~misuse[p])
          => (/\ store' = store
              /\ ret'[p] \notin {UCC_OK, UCC_INPROGRESS}
              /\ pc'[p] \notin {"check", "get", "complete", "free_wait",
                                "free_del_done"})]_vars

\* C8 as claimed: while some peer has not published, every poll of another
\* peer returns UCC_INPROGRESS.
CE_C8 ==
    [][\A p \in Ranks :
          (/\ InTest(p)
           /\ Stepped(p)
           /\ pc'[p] \notin {"check", "get"}
           /\ \E q \in Ranks \ {p} : NotPublished(q, round[p]))
          => ret'[p] = UCC_INPROGRESS]_vars

\* C8 as amended: while some peer has not published in a round, no poll of
\* another peer gets past its first loop or writes its receive buffer: it
\* returns UCC_INPROGRESS, or UCC_ERR_NO_MESSAGE when its own store->check
\* throws, and no peer is ever past a successful poll of that round.
C8_NoCompletionWithoutAllPublished ==
    /\ [][\A p \in Ranks :
            (/\ InTest(p)
             /\ Stepped(p)
             /\ \E q \in Ranks \ {p} : NotPublished(q, round[p]))
            => (/\ pc[p] \in {"polling", "check"}
                /\ pc'[p] \in {"polling", "check", "test_failed"}
                /\ pc'[p] = "polling" => ret'[p] = UCC_INPROGRESS
                /\ pc'[p] = "test_failed" => ret'[p] = UCC_ERR_NO_MESSAGE
                /\ rbuf'[p] = rbuf[p])]_vars
    /\ [](\A p \in Ranks, q \in Ranks :
            NotPublished(q, round[p]) => pc[p] \notin {"get", "complete"} /\ ~InFree(p))

W_C8 ==
    /\ size = MaxSize
    /\ \E p \in Ranks, q \in Ranks :
          /\ pc[q] = "init_failed" /\ round[q] = round[p]
          /\ pc[p] = "polling" /\ ret[p] = UCC_INPROGRESS
          /\ \A r \in Ranks \ {q} : StoreCheck(store, teamr(r))

\* ------------------------------------- claim helpers for the lifecycle
Range(f) == {f[i] : i \in DOMAIN f}
Reverse(q) == [i \in 1 .. Len(q) |-> q[Len(q) + 1 - i]]
\* the resources the calls cs gave back, in call order
Released(cs) ==
    LET IsRelease(c) == ReleaseOf(c) # ""
        rs == SelectSeq(cs, IsRelease)
    IN  [i \in 1 .. Len(rs) |-> ReleaseOf(rs[i])]
ReleaseCount(o, r) == Cardinality({i \in 1 .. Len(o.calls) : ReleaseOf(o.calls[i]) = r})
\* the acquired resources no call has given back, in acquisition order
Held(o) ==
    LET StillHeld(r) == r \notin Range(Released(o.calls))
    IN  SelectSeq(o.acquired, StillHeld)
CallIndex(o, call) == CHOOSE i \in 1 .. Len(o.calls) : o.calls[i] = call
\* what was held when call number i returned, and what was given back after it
HeldAt(o, i) ==
    LET StillHeld(r) == r \notin Range(Released(SubSeq(o.calls, 1, i)))
    IN  SelectSeq(o.acquired, StillHeld)
ReleasedAfter(o, i) == Released(SubSeq(o.calls, i + 1, Len(o.calls)))
FailedIn(o, call) == o.state = "failed" /\ call \in Range(o.calls)

\* C9 as claimed: a constructor that fails on the thread-mode check holds no
\* library resource and has issued no teardown call.
CE_C9 ==
    \A o \in {ucx, ucc} :
        (o.state = "failed" /\ o.err \in {NoThreadsUCX, NoThreadsUCC})
            => (/\ Held(o) = << >>
                /\ o.acquired = << >>
                /\ Released(o.calls) = << >>)

\* C10: when ucp_worker_create or ucc_context_create fails, every resource
\* acquired before it has been given back by exactly one call, those still
\* held at the failure in reverse acquisition order, and nothing is given
\* back again later.
C10_CreateFailureRollsBack ==
    /\ FailedIn(ucx, "ucp_worker_create") =>
          /\ \A r \in Range(ucx.acquired) : ReleaseCount(ucx, r) = 1
          /\ ReleasedAfter(ucx, CallIndex(ucx, "ucp_worker_create"))
                = Reverse(HeldAt(ucx, CallIndex(ucx, "ucp_worker_create")))
    /\ FailedIn(ucc, "ucc_context_create") =>
          /\ \A r \in Range(ucc.acquired) : ReleaseCount(ucc, r) = 1
          /\ ReleasedAfter(ucc, CallIndex(ucc, "ucc_context_create"))
                = Reverse(HeldAt(ucc, CallIndex(ucc, "ucc_context_create")))

W_C10 ==
    /\ FailedIn(ucx, "ucp_worker_create")
    /\ HeldAt(ucx, CallIndex(ucx, "ucp_worker_create")) = <<"context">>
    /\ FailedIn(ucc, "ucc_context_create")
    /\ HeldAt(ucc, CallIndex(ucc, "ucc_context_create")) = <<"lib", "context_config">>


\* C11 as claimed: a constructor that failed, at whichever step, holds no
\* resource: everything acquired before the failing step has been released.
CE_C11 ==
    \A o \in {ucx, ucc} : o.state = "failed" => Held(o) = << >>


\* the releases a destructor made, given the last call of the constructor
DtorReleased(o, lastctor) == ReleasedAfter(o, CallIndex(o, lastctor))
\* a destructor has run on the constructed object
Destructed(o) == o.state \in {"destroyed", "destroy_failed"}

\* C12 as claimed: once a READY communicator has been destroyed, however often,
\* the resources it held were released in reverse acquisition order and every
\* acquired resource was released by exactly one call.
CE_C12 ==
    /\ Destructed(ucx) =>
          /\ DtorReleased(ucx, "ucp_worker_create") = <<"worker", "context">>
          /\ \A r \in Range(ucx.acquired) : ReleaseCount(ucx, r) = 1
    /\ Destructed(ucc) =>
          /\ DtorReleased(ucc, "ucc_context_config_release") = <<"context", "lib">>
          /\ \A r \in Range(ucc.acquired) : ReleaseCount(ucc, r) = 1


\* C13 as claimed: free_request on a request that is still in progress, or that
\* an earlier free_request already gave back, raises an error and makes no
\* further release call on it.
CE_C13 ==
    [][/\ (/\ ucx_req'.nfree # ucx_req.nfree
           /\ (ucx_req.status = UCC_INPROGRESS \/ ucx_req.released > 0))
          => (ucx_req'.err # "" /\ ucx_req'.released = ucx_req.released)
       /\ (/\ ucc_req'.nfree # ucc_req.nfree
           /\ (ucc_req.status = UCC_INPROGRESS \/ ucc_req.released > 0))
          => (ucc_req'.err # "" /\ ucc_req'.released = ucc_req.released)]_vars


\* --------------------------------------- claim helpers for the trace
HasField(rec, k) == \E i \in DOMAIN rec : rec[i][1] = k
Field(rec, k) == rec[CHOOSE i \in DOMAIN rec : rec[i][1] = k][2]

\* C14: the trace holds one record per recordComms call, in call order, and
\* the k-th record counting from 0 carries seqnum k; the logger's counter is
\* the number of records.
C14_SeqnumCountsRecords ==
    /\ Len(comms_trace_) = Len(recorded)
    /\ seqnum = Len(comms_trace_)
    /\ \A k \in 1 .. Len(comms_trace_) :
          /\ Field(comms_trace_[k], "seqnum") = k - 1
          /\ Field(comms_trace_[k], "comms") = recorded[k]

W_C14 ==
    /\ Len(comms_trace_) = MaxRecords
    /\ recorded[1] # recorded[MaxRecords]
    /\ Field(comms_trace_[MaxRecords], "seqnum") = MaxRecords - 1


\* ------------------------------------ claim helpers for the release
Releasing(p) == pc[p] \in {"free_del_done", "free_del_team", "free_add_free",
                           "free_wait", "free_del_own"}
LastArriving(p) == pc[p] \in {"free_del_done", "free_del_team", "free_add_free"}

\* C15: when no store call fails and every peer keeps taking its steps, every
\* peer that is inside oob_allgather_free eventually returns from it, in the
\* first round and in every later one: a peer leaves the function only by
\* returning UCC_OK, and again and again no peer is inside it; the last
\* arriver is never waiting.
C15_ReleaseReturns ==
    /\ []<>(\A p \in Ranks : ~Releasing(p))
    /\ [][\A p \in Ranks :
            (Releasing(p) /\ ~Releasing(p)') => (pc'[p] = "idle" /\ ret'[p] = UCC_OK)]_vars
    /\ [](\A p \in Ranks : LastArriving(p) => ENABLED PeerStep(p))

W_C15 ==
    /\ size = MaxSize
    /\ \E p \in Ranks, q \in Ranks :
          /\ pc[p] = "free_wait" /\ round[p] = 2 /\ ~StoreCheck(store, ag_free(p))
          /\ pc[q] = "free_wait" /\ round[q] = 2 /\ q # p


\* C16: the release key of rank r leaves the store only in peer r's own
\* deleteKey, which r reaches only from a wait that found the key or from the
\* loop in which r itself set it; the key a wait returns on, and the key
\* deleted, was set in the round r is in, never in an earlier one.
C16_ReleaseKeyUsedBeforeDeleted ==
    [][\A r \in Ranks :
          /\ (StoreCheck(store, ag_free(r)) /\ ~StoreCheck(store', ag_free(r)))
                => (/\ pc[r] = "free_del_own"
                    /\ pc'[r] = "idle"
                    /\ keyRound[ag_free(r)] = round[r])
          /\ (pc[r] = "free_wait" /\ pc'[r] = "free_del_own")
                => (/\ StoreCheck(store, ag_free(r))
                    /\ keyRound[ag_free(r)] = round[r])
          /\ (pc[r] # "free_del_own" /\ pc'[r] = "free_del_own")
                => (/\ pc[r] \in {"free_wait", "free_add_free"}
                    /\ StoreCheck(store', ag_free(r))
                    /\ keyRound'[ag_free(r)] = round[r])]_vars

W_C16 ==
    /\ size = MaxSize
    /\ \E r \in Ranks, q \in Ranks :
          /\ pc[r] = "free_del_own" /\ round[r] = 2
          /\ StoreCheck(store, ag_free(r)) /\ keyRound[ag_free(r)] = 2
          /\ pc[q] = "free_add_free" /\ round[q] = 2


\* peer q waits for a release key that nobody is left to set: no peer is in
\* the last arriver's branch and no peer of q's round has yet to call release
Blocked(q) ==
    /\ pc[q] = "free_wait"
    /\ ~StoreCheck(store, ag_free(q))
    /\ \A r \in Ranks :
          /\ ~LastArriving(r)
          /\ round[r] = round[q] => pc[r] \notin {"polling", "check", "get", "complete"}

\* C17: a store call that throws inside the last arriver's branch ends the
\* release with UCC_ERR_NO_MESSAGE and leaves the store exactly as the calls
\* before it left it; every peer then waiting for a release key that is not
\* set is blocked, and a blocked peer stays blocked: its key never appears and
\* it leaves the wait only if the wait itself throws.
C17_FailedCleanupBlocksWaiters ==
    [][/\ \A p \in Ranks :
            (LastArriving(p) /\ pc'[p] = "free_failed")
            => (/\ ret'[p] = UCC_ERR_NO_MESSAGE
                /\ store' = store
                /\ \A q \in Ranks :
                      (pc[q] = "free_wait" /\ ~StoreCheck(store, ag_free(q)))
                      => Blocked(q)')
       /\ \A q \in Ranks :
            Blocked(q) => (Blocked(q)' \/ (pc'[q] = "free_failed" /\ store' = store))]_vars

W_C17 ==
    /\ size = MaxSize
    /\ \E p \in Ranks, q \in Ranks :
          /\ pc[p] = "free_failed" /\ ret[p] = UCC_ERR_NO_MESSAGE
          /\ \E r \in Ranks \ {p, q} : StoreCheck(store, ag_free(r)) /\ pc[r] = "free_wait"
          /\ ~StoreCheck(store, ag_free(p))
          /\ Blocked(q)


\* C18: the counter "ag_done" holds the number of peers of one round that
\* incremented it; an increment returns one more than the number of peers
\* that incremented before it in the round, at most S, and the peer takes the
\* last arriver's branch exactly when it reads S; the branch deletes the
\* counter, so the count starts again in the next round and at most one peer
\* is in the last arriver's branch at any time.
C18_CounterReturnsEachValueOnce ==
    /\ [](/\ StoreCheck(store, ag_done) =>
                /\ StoreGet(store, ag_done) = Cardinality(done_by)
                /\ StoreGet(store, ag_done) \in 1 .. size
          /\ ~StoreCheck(store, ag_done) => done_by = {}
          /\ \A a \in done_by, b \in done_by : a[2] = b[2]
          /\ Cardinality({r \in Ranks : LastArriving(r)}) <= 1
          /\ \A r \in Ranks, q \in Ranks :
                (LastArriving(r) /\ round[q] = round[r] /\ q # r)
                => pc[q] \in {"free_wait", "free_del_own", "free_failed", "idle"})
    /\ [][\A p \in Ranks :
            (pc[p] = "complete" /\ pc'[p] \in {"free_del_done", "free_wait"})
            => (/\ StoreGet(store', ag_done) = Cardinality(done_by) + 1
                /\ <<p, round[p]>> \notin done_by
                /\ \A a \in done_by : a[2] = round[p]
                /\ pc'[p] = "free_del_done" <=> StoreGet(store', ag_done) = size)]_vars

W_C18 ==
    /\ size = MaxSize
    /\ \E p \in Ranks :
          /\ pc[p] = "free_del_done" /\ round[p] = 2
          /\ StoreGet(store, ag_done) = size
          /\ \A q \in Ranks \ {p} : pc[q] = "free_wait" /\ round[q] = 2


\* the receive buffer after the first k segments of round n were copied in
Segments(n, k) ==
    [j \in 1 .. (size * msglen) |-> IF j <= k * msglen THEN Concat(n)[j] ELSE 0]

\* C19 as claimed: a poll that returned anything but UCC_OK left the receive
\* buffer as it was when the round began.
CE_C19 ==
    \A p \in Ranks :
        (pc[p] \in {"polling", "test_failed"} /\ ret[p] # UCC_OK) => rbuf[p] = FreshBuf

\* C19 as amended: a poll that returns UCC_INPROGRESS, or an error from a
\* store->check, has written nothing to the receive buffer; a poll that
\* returns an error from a store->get has written the segments of the ranks
\* before the failing one and nothing else, and the failing call leaves them
\* there; only a poll that returns UCC_OK has written all S segments.
C19_PollWritesPrefixOnGetError ==
    /\ [](\A p \in Ranks :
            /\ pc[p] \in {"polling", "check"} => rbuf[p] = FreshBuf
            /\ pc[p] = "get" => rbuf[p] = Segments(round[p], idx[p])
            /\ pc[p] = "test_failed" =>
                  \E k \in 0 .. (size - 1) : rbuf[p] = Segments(round[p], k)
            /\ pc[p] = "complete" => rbuf[p] = Segments(round[p], size))
    /\ [][\A p \in Ranks :
            (InTest(p) /\ pc'[p] = "test_failed")
            => (/\ ret'[p] = UCC_ERR_NO_MESSAGE
                /\ rbuf'[p] = rbuf[p]
                /\ pc[p] = "get" => rbuf'[p] = Segments(round[p], idx[p]))]_vars

W_C19 ==
    /\ size = MaxSize
    /\ \E p \in Ranks :
          /\ pc[p] = "test_failed" /\ ret[p] = UCC_ERR_NO_MESSAGE
          /\ rbuf[p] = Segments(round[p], size - 1)
          /\ rbuf[p] # FreshBuf
          /\ \A r \in Ranks : StoreCheck(store, teamr(r))


\* the record the last recordComms step pushed
LastRecord == comms_trace_'[Len(comms_trace_')]
\* the step was a recordComms call
Recorded == Len(comms_trace_') = Len(comms_trace_) + 1

\* C20: a record carries a root exactly when the last recordOptionalInfo(root)
\* since the previous recordComms gave one, and in_split and out_split exactly
\* when the last recordOptionalInfo(out, in) since then gave a non-empty
\* vector; the values are the ones given; every recordComms leaves no root and
\* no split sizes pending, so a record made with no recordOptionalInfo since
\* the previous one carries none of the three fields.
C20_OptionalInfoAppliesOnce ==
    /\ [][Recorded =>
            /\ HasField(LastRecord, "root") <=> gaveRoot
            /\ HasField(LastRecord, "in_split") <=> gaveSplit
            /\ HasField(LastRecord, "out_split") <=> gaveSplit
            /\ gaveRoot => Field(LastRecord, "root") = curRoot_
            /\ gaveSplit => /\ Field(LastRecord, "in_split") = curInSplitSizes_
                            /\ Field(LastRecord, "out_split") = curOutSplitSizes_
            /\ curRoot_' = -1
            /\ curInSplitSizes_' = << >>
            /\ curOutSplitSizes_' = << >>]_vars
    /\ [](/\ gaveRoot <=> curRoot_ # -1
          /\ gaveSplit <=> (curInSplitSizes_ # << >> \/ curOutSplitSizes_ # << >>))

W_C20 ==
    /\ Len(comms_trace_) = 2
    /\ HasField(comms_trace_[1], "root")
    /\ HasField(comms_trace_[1], "in_split")
    /\ Field(comms_trace_[1], "out_split") = << >>
    /\ ~HasField(comms_trace_[2], "root")
    /\ ~HasField(comms_trace_[2], "in_split")
    /\ ~gaveRoot /\ ~gaveSplit

====
